---- MODULE Spec2Model ----
(***************************************************************************)
(* The PropertySearch component of frontend/src/PropertySearch.jsx: its    *)
(* React state (searchQuery, properties, loading, error, aiResponse), the  *)
(* mount effect, the form handlers and the asynchronous searchProperties   *)
(* function, whose remote call is the only suspension point.  Every        *)
(* continuation of searchProperties runs to completion on the event loop,  *)
(* so each one is one action.                                              *)
(***************************************************************************)
EXTENDS Integers, Sequences, FiniteSets, TLC

VARIABLES
    location,     \* the encoded value of the q parameter of the /search route
    searchQuery,  \* useState(searchParams.get('q') || '')
    properties,   \* useState([])
    loading,      \* useState(false)
    error,        \* useState(null)
    aiResponse,   \* useState('')
    effectDeps,   \* dependency list the mount effect last ran with
    calls         \* the invocations of searchProperties, in order of initiation

vars == <<location, searchQuery, properties, loading, error, aiResponse, effectDeps, calls>>

\* The four pieces of state a search reads and writes.
searchState == <<properties, loading, error, aiResponse>>

----------------------------------------------------------------------------
(* Bounds *)

\* searchProperties is invoked at most this many times in one session.
MaxAttempts == 2

----------------------------------------------------------------------------
(* Values *)

\* An optional value (a field a payload may lack, a parameter a route may lack)
\* is a sequence of at most one element.
Absent == <<>>
Some(v) == <<v>>

Null == "<null>"                  \* the null of useState(null)
NotRendered == <<<<>>, <<>>>>     \* no dependency list yet: the effect has not run

\* Texts the input can hold, as sequences of characters: the empty text, a
\* text of white space only, and texts with something to search for.
Queries == {<<>>, <<" ">>, <<"a">>, <<" ", "a">>}

\* if (searchQuery): a string is truthy unless it is empty.
Truthy(q) == q # <<>>

IsSpace(c) == c = " "

RECURSIVE TrimStart(_)
TrimStart(q) ==
    IF q # <<>> /\ IsSpace(Head(q)) THEN TrimStart(Tail(q)) ELSE q

RECURSIVE TrimEnd(_)
TrimEnd(q) ==
    IF q # <<>> /\ IsSpace(q[Len(q)]) THEN TrimEnd(SubSeq(q, 1, Len(q) - 1)) ELSE q

\* String.prototype.trim
Trim(q) == TrimEnd(TrimStart(q))

\* encodeURIComponent, character by character: a space becomes %20.
EncodeChar(c) == IF c = " " THEN <<"%", "2", "0">> ELSE <<c>>

RECURSIVE EncodeURIComponent(_)
EncodeURIComponent(q) ==
    IF q = <<>> THEN <<>> ELSE EncodeChar(Head(q)) \o EncodeURIComponent(Tail(q))

\* searchParams.get decodes the percent escapes of the parameter.
RECURSIVE DecodeParam(_)
DecodeParam(s) ==
    IF s = <<>> THEN <<>>
    ELSE IF Head(s) = "%" /\ Len(s) >= 3 /\ s[2] = "2" /\ s[3] = "0"
         THEN <<" ">> \o DecodeParam(SubSeq(s, 4, Len(s)))
         ELSE <<Head(s)>> \o DecodeParam(Tail(s))

\* searchParams.get('q'): null when the route carries no q parameter.
SearchParamsGet(loc) == IF loc = Absent THEN Absent ELSE Some(DecodeParam(loc[1]))

\* x || '' for a string or null/undefined x.
OrEmptyString(x) == IF x = Absent \/ x[1] = "" THEN "" ELSE x[1]

\* searchParams.get('q') || '' for the query text.
OrEmptyQuery(x) == IF x = Absent \/ x[1] = <<>> THEN <<>> ELSE x[1]

\* x || [] for a list or undefined x.
OrEmptyList(x) == IF x = Absent THEN <<>> ELSE x[1]

----------------------------------------------------------------------------
(* The remote query service, as seen from the component *)

TopK == 5

\* Property records as the service sends them; only property_id is read by
\* name as a key, and a record may lack it.
P1 == [property_id |-> Some(1)]
P2 == [property_id |-> Some(2)]
PNoId == [property_id |-> Absent]

WireProperties == {Absent, Some(<<P1, P2>>), Some(<<PNoId, P1>>)}
WireResponses == {Absent, Some("Found 2 homes")}

SuccessData == [kind : {"object"}, success : {TRUE}, response : WireResponses, properties : WireProperties]
FailureData == [kind : {"object"}, success : {FALSE}, response : {Absent}, properties : {Absent}]

NetworkError == [kind |-> "fetch rejected"]  \* fetch() rejects: no response received
BadBody == [kind |-> "json rejected"]        \* response.json() rejects: body not decodable
NullData == [kind |-> "null"]                \* the body decodes to null

\* What response.json() can resolve with.
JsonValues == SuccessData \cup FailureData \cup {NullData}

Pending == [kind |-> "pending"]

\* data.success on a decoded body: reading a field of null throws a TypeError.
Throws(outcome) == outcome.kind # "object"

\* A try block that ends before the body is decoded.
InTryFetchOnly(outcome) == outcome.kind = "fetch rejected"

\* The try block spans the fetch, the decoding and the reads of data.
InTry(outcome) == TRUE

IsSuccess(outcome) == ~Throws(outcome) /\ outcome.success

FailedMessage == "Failed to fetch properties"
ConnectingMessage == "Error connecting to the server"

----------------------------------------------------------------------------
(* Initial state: the first render *)

Init ==
    /\ location \in {Absent} \cup {Some(EncodeURIComponent(q)) : q \in Queries}
    /\ searchQuery = OrEmptyQuery(SearchParamsGet(location))
    /\ properties = <<>>
    /\ loading = FALSE
    /\ error = Null
    /\ aiResponse = ""
    /\ effectDeps = NotRendered
    /\ calls = <<>>

\* An effect that depends on the query text: useEffect(..., [searchQuery]).
EffectDepsOnQuery(q) == <<q>>

\* useEffect(..., []): the dependency list of the effect.
EffectDeps(q) == <<>>

\* Effects of a render are flushed before the next event is handled.
EffectsFlushed == effectDeps = EffectDeps(searchQuery)

\* An invocation has settled once its function body has run to its end,
\* normally ("done") or with an exception leaving it ("unhandled").
Settled(c) == c.stage \in {"done", "unhandled"}

InFlight == {i \in 1..Len(calls) : ~Settled(calls[i])}

\* searchProperties without its setLoading(true).
BeginSearchKeepsLoading(query, origin) ==
    /\ Len(calls) < MaxAttempts
    /\ loading' = loading
    /\ error' = Null
    /\ calls' = Append(calls, [query |-> query, top_k |-> TopK, origin |-> origin,
                               stage |-> "fetch", outcome |-> Pending,
                               pending |-> InFlight])
    /\ UNCHANGED <<properties, aiResponse>>

\* searchProperties up to its first await: the two setters, then fetch is issued.
BeginSearch(query, origin) ==
    /\ Len(calls) < MaxAttempts
    /\ loading' = TRUE
    /\ error' = Null
    /\ calls' = Append(calls, [query |-> query, top_k |-> TopK, origin |-> origin,
                               stage |-> "fetch", outcome |-> Pending,
                               pending |-> InFlight])
    /\ UNCHANGED <<properties, aiResponse>>

\* The effect of the first render.
UseEffect ==
    /\ ~EffectsFlushed
    /\ effectDeps' = EffectDeps(searchQuery)
    /\ IF Truthy(searchQuery)
       THEN BeginSearch(searchQuery, "initialize")
       ELSE UNCHANGED <<properties, loading, error, aiResponse, calls>>
    /\ UNCHANGED <<location, searchQuery>>

\* onChange of the input.
SetSearchQuery ==
    /\ EffectsFlushed
    /\ \E q \in Queries : searchQuery' = q
    /\ UNCHANGED <<location, properties, loading, error, aiResponse, effectDeps, calls>>

\* onSubmit of the form.
HandleSearch ==
    /\ EffectsFlushed
    /\ IF Truthy(searchQuery)
       THEN /\ BeginSearch(searchQuery, "submit")
            /\ location' = Some(EncodeURIComponent(searchQuery))
       ELSE UNCHANGED <<location, properties, loading, error, aiResponse, calls>>
    /\ UNCHANGED <<searchQuery, effectDeps>>

\* fetch resolves with a response; searchProperties suspends on response.json().
FetchResolve(i) ==
    /\ EffectsFlushed
    /\ calls[i].stage = "fetch"
    /\ calls' = [calls EXCEPT ![i].stage = "json"]
    /\ UNCHANGED <<location, searchQuery, properties, loading, error, aiResponse, effectDeps>>

\* A failure branch that also empties the stored list.
PropertiesAfterClearsOnFailure(outcome, props) ==
    IF IsSuccess(outcome) THEN OrEmptyList(outcome.properties) ELSE <<>>

\* if (data.success) setProperties(data.properties || [])
PropertiesAfter(outcome, props) ==
    IF IsSuccess(outcome) THEN OrEmptyList(outcome.properties) ELSE props

\* A success branch without its setAiResponse.
AiResponseAfterKeepsText(outcome, ai) == ai

\* if (data.success) setAiResponse(data.response || '')
AiResponseAfter(outcome, ai) ==
    IF IsSuccess(outcome) THEN OrEmptyString(outcome.response) ELSE ai

\* The branches of searchProperties without the else of if (data.success).
ErrorAfterNoElse(outcome, err) ==
    IF Throws(outcome)
    THEN (IF InTry(outcome) THEN ConnectingMessage ELSE err)
    ELSE err

\* A catch block that reports what the else branch reports.
ErrorAfterOneMessage(outcome, err) ==
    IF Throws(outcome)
    THEN (IF InTry(outcome) THEN FailedMessage ELSE err)
    ELSE (IF outcome.success THEN err ELSE FailedMessage)

\* else setError('Failed ...'); catch (err) setError('Error connecting ...')
ErrorAfter(outcome, err) ==
    IF Throws(outcome)
    THEN (IF InTry(outcome) THEN ConnectingMessage ELSE err)
    ELSE (IF outcome.success THEN err ELSE FailedMessage)

\* setLoading(false) in the success branch instead of the finally block: an
\* attempt that fails leaves the flag set.
LoadingAfterSuccessOnly(outcome) == ~IsSuccess(outcome)

\* finally setLoading(false)
LoadingAfter(outcome) == FALSE

\* How the invocation ends: an exception thrown outside the try block leaves it.
StageAfter(outcome) ==
    IF Throws(outcome) /\ ~InTry(outcome) THEN "unhandled" ELSE "done"

\* A searchProperties that calls itself again when its attempt has failed.
CallsAfterWithRetry(i, outcome, cs) ==
    LET ended == [cs EXCEPT ![i].outcome = outcome, ![i].stage = StageAfter(outcome)]
    IN  IF ~IsSuccess(outcome) /\ Len(cs) < MaxAttempts
        THEN Append(ended, [query |-> cs[i].query, top_k |-> TopK, origin |-> cs[i].origin,
                            stage |-> "fetch", outcome |-> Pending,
                            pending |-> {k \in 1..Len(ended) : ~Settled(ended[k])}])
        ELSE ended

\* The invocations once invocation i has run to its end: it issues no further call.
CallsAfter(i, outcome, cs) ==
    [cs EXCEPT ![i].outcome = outcome, ![i].stage = StageAfter(outcome)]

\* The rest of searchProperties once its awaits have settled with outcome.
Settle(i, outcome) ==
    /\ calls' = CallsAfter(i, outcome, calls)
    /\ properties' = PropertiesAfter(outcome, properties)
    /\ aiResponse' = AiResponseAfter(outcome, aiResponse)
    /\ error' = ErrorAfter(outcome, error)
    /\ loading' = LoadingAfter(outcome)
    /\ UNCHANGED <<location, searchQuery, effectDeps>>

\* fetch rejects.
FetchReject(i) ==
    /\ EffectsFlushed
    /\ calls[i].stage = "fetch"
    /\ Settle(i, NetworkError)

\* response.json() rejects.
JsonReject(i) ==
    /\ EffectsFlushed
    /\ calls[i].stage = "json"
    /\ Settle(i, BadBody)

\* response.json() resolves.
JsonResolve(i) ==
    /\ EffectsFlushed
    /\ calls[i].stage = "json"
    /\ \E data \in JsonValues : Settle(i, data)

Next ==
    \/ UseEffect
    \/ SetSearchQuery
    \/ HandleSearch
    \/ \E i \in 1..Len(calls) : FetchResolve(i)
    \/ \E i \in 1..Len(calls) : FetchReject(i)
    \/ \E i \in 1..Len(calls) : JsonReject(i)
    \/ \E i \in 1..Len(calls) : JsonResolve(i)

Spec == Init /\ [][Next]_vars

----------------------------------------------------------------------------
(* What the component shows *)

\* loading ? 'Loading...' : error ? error : the results; before any search the
\* results view is the idle view.
Phase ==
    IF loading THEN "Loading"
    ELSE IF error # Null THEN "Error"
    ELSE IF calls = <<>> THEN "Idle"
    ELSE "Success"

\* The most recently initiated invocation.
Current == Len(calls)

\* Invocation i settles in this step.
Settles(i) == ~Settled(calls[i]) /\ Settled(calls'[i])

\* The search state a success payload normalizes to.
ResultOf(outcome) == <<OrEmptyList(outcome.properties), OrEmptyString(outcome.response)>>

----------------------------------------------------------------------------
(* Staleness *)

\* Invocation i carries a query with something to search for.
NonBlank(i) == Trim(calls[i].query) # <<>>

\* C1: when a search was begun while an earlier one was still in flight and
\* both have resolved with success payloads, in either order, the state holds
\* the answer text and the records of the later search.
Staleness ==
    \A i \in 1..Len(calls) :
        ( /\ i < Current
          /\ NonBlank(i) /\ NonBlank(Current)
          /\ i \in calls[Current].pending
          /\ \A k \in 1..Len(calls) : Settled(calls[k])
          /\ IsSuccess(calls[i].outcome)
          /\ IsSuccess(calls[Current].outcome) )
        => <<properties, aiResponse>> = ResultOf(calls[Current].outcome)

\* C2: the resolution of a superseded invocation, with success or with any
\* failure, changes no part of the search state.
StaleResultDiscard ==
    [][\A i \in 1..Len(calls) :
          (i < Current /\ NonBlank(i) /\ NonBlank(Current) /\ Settles(i))
          => UNCHANGED searchState]_vars

----------------------------------------------------------------------------
(* Phase and stored values *)

\* Some result is stored: a record, or an answer text.
ResultHeld == properties # <<>> \/ aiResponse # ""

\* C3: a result is held only in the Success phase (none while loading or
\* after a failure), and an error reason is held exactly in the Error phase.
PhaseInvariant ==
    /\ ResultHeld => Phase = "Success"
    /\ error # Null <=> Phase = "Error"

\* C4: submitting, or initializing with, a query that is empty after trimming
\* leaves the search state unchanged and issues no remote call.
BlankQueryIsNoOp ==
    [][((HandleSearch \/ UseEffect) /\ Trim(searchQuery) = <<>>)
          => UNCHANGED <<properties, loading, error, aiResponse, calls>>]_vars

\* C5: submitting a non-empty query moves the phase to Loading in the step
\* of the submission, with the remote call of the attempt still unresolved,
\* whatever the phase was.
SubmitLoadsSynchronously ==
    [][(HandleSearch /\ Truthy(searchQuery))
          => /\ Phase' = "Loading"
             /\ Len(calls') = Len(calls) + 1
             /\ calls'[Len(calls')].stage = "fetch"
             /\ calls'[Len(calls')].query = searchQuery]_vars

\* C5 witness: a search failed, and the next submission, made from the Error
\* phase, has put the component into Loading.
SubmitFromErrorWitness ==
    /\ Len(calls) = 2
    /\ calls[2].origin = "submit"
    /\ calls[2].stage = "fetch"
    /\ calls[2].pending = {}
    /\ Settled(calls[1]) /\ ~IsSuccess(calls[1].outcome)
    /\ Phase = "Loading"

----------------------------------------------------------------------------
(* Outcomes of the current attempt *)

\* C6: when the current attempt resolves with a success payload, the phase
\* becomes Success, the answer text is the payload's response (empty when
\* absent) and the records are the payload's properties in order (empty when
\* absent).
CurrentSuccessLands ==
    [][\A i \in 1..Len(calls) :
          ( /\ i = Current
            /\ \A k \in 1..Len(calls) : NonBlank(k)
            /\ Settles(i)
            /\ IsSuccess(calls'[i].outcome) )
          => /\ Phase' = "Success"
             /\ aiResponse' = OrEmptyString(calls'[i].outcome.response)
             /\ properties' = OrEmptyList(calls'[i].outcome.properties)]_vars

\* The current attempt resolves in this step with a decoded body whose success
\* indicator is false.
CurrentReportsFailure(i) ==
    /\ i = Current
    /\ Settles(i)
    /\ calls'[i].outcome.kind = "object"
    /\ ~calls'[i].outcome.success

\* C7, as stated: a service-reported failure of the current attempt gives the
\* Error phase with the reason "request failed".
ServiceFailureReasonAsStated ==
    [][\A i \in 1..Len(calls) :
          CurrentReportsFailure(i) => (Phase' = "Error" /\ error' = "request failed")]_vars

\* C7, amended: a service-reported failure of the current attempt gives the
\* Error phase with the reason 'Failed to fetch properties'.
ServiceFailureReason ==
    [][\A i \in 1..Len(calls) :
          CurrentReportsFailure(i)
          => (Phase' = "Error" /\ error' = "Failed to fetch properties")]_vars

\* C7 witness: the current attempt has ended with a service-reported failure.
ServiceFailureWitness ==
    /\ calls # <<>>
    /\ calls[Current].stage = "done"
    /\ calls[Current].outcome \in FailureData
    /\ Phase = "Error"

\* The current attempt ends in this step because fetch rejected (connection
\* failure, no response) or the body could not be decoded.
CurrentTransportFailure(i) ==
    /\ i = Current
    /\ Settles(i)
    /\ calls'[i].outcome.kind \in {"fetch rejected", "json rejected"}

\* C8, as stated: a transport failure of the current attempt gives the Error
\* phase with the reason "connection error".
TransportFailureReasonAsStated ==
    [][\A i \in 1..Len(calls) :
          CurrentTransportFailure(i) => (Phase' = "Error" /\ error' = "connection error")]_vars

\* C8, amended: a transport failure of the current attempt gives the Error
\* phase with the reason 'Error connecting to the server', which differs from
\* the reason of a service-reported failure.
TransportFailureReason ==
    [][\A i \in 1..Len(calls) :
          CurrentTransportFailure(i)
          => /\ Phase' = "Error"
             /\ error' = "Error connecting to the server"
             /\ error' # FailedMessage]_vars

\* C8 witness: the current attempt has ended because the body was not decodable.
TransportFailureWitness ==
    /\ calls # <<>>
    /\ calls[Current].stage = "done"
    /\ calls[Current].outcome = BadBody
    /\ Phase = "Error"

\* C9: no failure leaves searchProperties as an exception; an attempt that
\* failed has left an error reason or been followed by a newer search, and in
\* the Error phase the reason is a non-empty text.
NoFailureEscapes ==
    /\ \A i \in 1..Len(calls) : calls[i].stage # "unhandled"
    /\ (calls # <<>> /\ Settled(calls[Current]) /\ ~IsSuccess(calls[Current].outcome))
          => Phase = "Error"
    /\ Phase = "Error" => error \in {FailedMessage, ConnectingMessage} /\ error # ""

\* C9 witness: the body of the current attempt decoded to null, a malformed
\* response, and the component shows an error.
MalformedResponseWitness ==
    /\ calls # <<>>
    /\ calls[Current].stage = "done"
    /\ calls[Current].outcome = NullData
    /\ Phase = "Error"

----------------------------------------------------------------------------
(* The initial-load search *)

\* A search is begun in this step by the mount effect.
Initializes ==
    /\ Len(calls') = Len(calls) + 1
    /\ calls'[Len(calls')].origin = "initialize"

\* C10: the initial-load search is begun only by the effect of the first
\* render, only for a non-empty pre-filled query, and as a submission of that
\* query would begin it; no later step begins it again.
InitializeOnce ==
    [][Initializes
          => /\ effectDeps = NotRendered
             /\ calls = <<>>
             /\ Truthy(OrEmptyQuery(SearchParamsGet(location)))
             /\ calls'[1].query = OrEmptyQuery(SearchParamsGet(location))
             /\ calls'[1].top_k = TopK
             /\ calls'[1].stage = "fetch"
             /\ Phase' = "Loading"]_vars

\* C10 witness: after the initial-load search, the query was edited, a search
\* was submitted and the route changed, and the initial-load search ran once.
InitializeOnceWitness ==
    /\ Len(calls) = 2
    /\ calls[1].origin = "initialize"
    /\ calls[2].origin = "submit"
    /\ calls[2].query # calls[1].query
    /\ location = Some(EncodeURIComponent(calls[2].query))
    /\ searchQuery # calls[2].query

----------------------------------------------------------------------------
(* Leaving Loading *)

\* The remote call of the most recently initiated search is outstanding.
CurrentOutstanding == calls # <<>> /\ ~Settled(calls[Current])

\* C11: while the remote call of the most recently initiated search is
\* outstanding the phase is Loading, whatever earlier searches resolve.
LoadingWhileCurrentOutstanding ==
    (CurrentOutstanding /\ \A k \in 1..Len(calls) : NonBlank(k)) => Phase = "Loading"

----------------------------------------------------------------------------
(* Remote calls *)

\* A submission, or the initial load, with a query that passes the guard.
AcceptedSubmission == (HandleSearch \/ UseEffect) /\ Truthy(searchQuery)

\* C12: every accepted submission issues exactly one remote call, carrying
\* the submitted query and the result limit, and nothing else issues one: no
\* outcome of a call, failure included, is followed by a call of its own.
OneCallPerSubmission ==
    [][ /\ AcceptedSubmission
           => /\ Len(calls') = Len(calls) + 1
              /\ calls'[Len(calls')].query = searchQuery
              /\ calls'[Len(calls')].top_k = 5
              /\ calls'[Len(calls')].stage = "fetch"
        /\ Len(calls') # Len(calls) => AcceptedSubmission ]_vars

\* C12 witness: the only search so far has failed, and its call is still the
\* only one issued.
NoRetryWitness ==
    /\ Len(calls) = 1
    /\ Settled(calls[1])
    /\ ~IsSuccess(calls[1].outcome)
    /\ calls[1].query = <<"a">>
    /\ calls[1].top_k = 5

----------------------------------------------------------------------------
(* Liveness *)

\* Some continuation of invocation i runs: its fetch or its decoding settles.
Resolve(i) == FetchResolve(i) \/ FetchReject(i) \/ JsonReject(i) \/ JsonResolve(i)

\* The component when React runs the effect of the first render and every
\* remote call that was issued eventually resolves.
LiveSpec ==
    /\ Spec
    /\ WF_vars(UseEffect)
    /\ \A i \in 1..MaxAttempts : WF_vars(i <= Len(calls) /\ Resolve(i))

\* Once every issued call has resolved, the phase is Success or Error.
EventuallyTerminal ==
    (calls # <<>>) ~> (InFlight = {} /\ Phase \in {"Success", "Error"})

\* With no call outstanding and no new submission, the phase stays as it is.
TerminalIsStable ==
    [][(InFlight = {} /\ Len(calls') = Len(calls)) => Phase' = Phase]_vars

\* Nothing but the end of the current attempt's remote call moves the phase
\* out of Loading.
OnlyCurrentLeavesLoading ==
    [][(Phase = "Loading" /\ Phase' # "Loading" /\ \A k \in 1..Len(calls) : NonBlank(k))
          => Settles(Current)]_vars

\* C13: when every issued call resolves and no further submission is made,
\* the phase reaches Success or Error and stays there; and while the call of
\* the current attempt does not resolve, the phase stays Loading.
Liveness == EventuallyTerminal /\ TerminalIsStable /\ OnlyCurrentLeavesLoading

----------------------------------------------------------------------------
(* The stored result *)

\* The payloads of the searches that have ended in success, normalized.
LandedResults ==
    {ResultOf(calls[i].outcome) :
        i \in {k \in 1..Len(calls) : Settled(calls[k]) /\ IsSuccess(calls[k].outcome)}}

\* C14: the stored records and the stored answer text are both the initial
\* empty values or both come from one and the same successful response.
ResultIsAtomic ==
    \/ <<properties, aiResponse>> = <<<<>>, "">>
    \/ <<properties, aiResponse>> \in LandedResults

\* C14 witness: two overlapping searches have both succeeded with payloads
\* that differ in the records and in the answer text.
TwoResultsWitness ==
    /\ Len(calls) = 2
    /\ 1 \in calls[2].pending
    /\ Settled(calls[1]) /\ IsSuccess(calls[1].outcome)
    /\ Settled(calls[2]) /\ IsSuccess(calls[2].outcome)
    /\ ResultOf(calls[1].outcome)[1] # ResultOf(calls[2].outcome)[1]
    /\ ResultOf(calls[1].outcome)[2] # ResultOf(calls[2].outcome)[2]

\* C15: every stored record has an identifier, and no two stored records
\* share one: records sent without an identifier are left out.
StoredRecordsHaveIds ==
    /\ \A k \in 1..Len(properties) : properties[k].property_id # Absent
    /\ \A k, l \in 1..Len(properties) :
          properties[k].property_id = properties[l].property_id => k = l

----------------------------------------------------------------------------
(* Quiescence and the frame of a failure *)

\* C16: whenever no remote call is outstanding the loading flag is false,
\* however the calls that were issued have ended.
Quiescence == InFlight = {} => ~loading

\* C16 witness: two searches have ended, one for lack of a connection and
\* one with a failure the service reported, and nothing is outstanding.
QuiescentAfterFailuresWitness ==
    /\ Len(calls) = 2
    /\ InFlight = {}
    /\ calls[1].outcome = NetworkError
    /\ calls[2].outcome \in FailureData
    /\ ~loading

\* Invocation i ends in this step without a success payload.
SettlesWithFailure(i) == Settles(i) /\ ~IsSuccess(calls'[i].outcome)

\* C17: a resolution that fails sets the error and clears the loading flag
\* and nothing else: the stored records and answer text stay as they were.
FailureFrame ==
    [][\A i \in 1..Len(calls) :
          SettlesWithFailure(i)
          => /\ UNCHANGED <<properties, aiResponse, searchQuery, location>>
             /\ error' \in {"Failed to fetch properties", "Error connecting to the server"}
             /\ loading' = FALSE]_vars

\* C17 witness: a search has succeeded and a later one has failed, and the
\* records of the earlier search are stored alongside the error.
ResultBesideErrorWitness ==
    /\ Len(calls) = 2
    /\ Settled(calls[1]) /\ IsSuccess(calls[1].outcome)
    /\ Settled(calls[2]) /\ ~IsSuccess(calls[2].outcome)
    /\ properties = <<P1, P2>>
    /\ aiResponse = "Found 2 homes"
    /\ error # Null

====
